---- MODULE Spec2Model ----
(***************************************************************************)
(* Model of the vkhitev-web site sources: the site configuration           *)
(* (docusaurus.config.js), the page components (src/pages) and the feature *)
(* grid (src/components/HomepageFeatures).  A build evaluates the          *)
(* configuration module, collects the routes of the site content and       *)
(* reports broken links and duplicate routes with the configured severity; *)
(* a render expands a component into its element tree.                     *)
(***************************************************************************)
EXTENDS Integers, Sequences, FiniteSets, TLC

(***************************************************************************)
(* Bounds.                                                                 *)
(***************************************************************************)
\* first calendar year of the environment clock
MinYear == 2021
\* the clock advances over MinYear .. MinYear + MaxYears
MaxYears == 1

Years == MinYear .. (MinYear + MaxYears)

(***************************************************************************)
(* Paths.  A link target or asset path is a record: whether the string     *)
(* starts with "/" and its segments.                                       *)
(***************************************************************************)
AbsPath(segs) == [leadingSlash |-> TRUE, segs |-> segs]

RelPath(segs) == [leadingSlash |-> FALSE, segs |-> segs]

\* baseUrl: '/'
baseUrl == AbsPath(<< >>)

(***************************************************************************)
(* `${new Date().getFullYear()}`: the decimal digits of the year.          *)
(***************************************************************************)
Digit(d) == CASE d = 0 -> "0" [] d = 1 -> "1" [] d = 2 -> "2" [] d = 3 -> "3"
              [] d = 4 -> "4" [] d = 5 -> "5" [] d = 6 -> "6" [] d = 7 -> "7"
              [] d = 8 -> "8" [] d = 9 -> "9"

RECURSIVE NumberToString(_)
NumberToString(n) ==
    IF n < 10 THEN << Digit(n) >>
    ELSE NumberToString(n \div 10) \o << Digit(n % 10) >>

\* copyright: `Copyright (c) ${new Date().getFullYear()} Vlad Khitev`
Copyright(now) == << "Copyright (c) " >> \o NumberToString(now) \o << " Vlad Khitev" >>

(***************************************************************************)
(* docusaurus.config.js                                                    *)
(***************************************************************************)
NavbarItems ==
    << [type |-> "doc", docId |-> "intro", position |-> "left", label |-> "Tutorial"],
       [to |-> RelPath(<< "blog" >>), label |-> "Blog", position |-> "left"],
       [href |-> "https://github.com/vkhitev/vkhitev-web", label |-> "GitHub",
        position |-> "right"] >>

FooterLinks ==
    << [title |-> "Links",
        items |-> << [label |-> "Blog", to |-> AbsPath(<< "blog" >>)],
                     [label |-> "About", to |-> AbsPath(<< "about" >>)],
                     [label |-> "Contact", to |-> AbsPath(<< "docs", "intro" >>)] >>],
       [title |-> "Professional",
        items |-> << [label |-> "LinkedIn", href |-> "https://www.linkedin.com/in/vlad-khitev"],
                     [label |-> "GitHub", href |-> "https://github.com/vkhitev"] >>],
       [title |-> "Media",
        items |-> << [label |-> "Instagram", href |-> "https://www.instagram.com/vkhitev"],
                     [label |-> "Facebook",
                      href |-> "https://www.facebook.com/profile.php?id=100011326866860"],
                     [label |-> "Twitter", href |-> "https://twitter.com/vkhitev"] >>] >>

\* the fields of module.exports that do not read the clock
StaticConfig ==
    [title |-> "Vlad Khitev",
     tagline |-> "Software Engineer | Head of Front-End Chapter at Axon",
     url |-> "https://vkhitev.vercel.app",
     baseUrl |-> baseUrl,
     onBrokenLinks |-> "throw",
     onBrokenMarkdownLinks |-> "throw",
     onDuplicateRoutes |-> "throw",
     favicon |-> RelPath(<< "img", "logo.svg" >>),
     organizationName |-> "vkhitev",
     projectName |-> "vkhitev-web",
     blog |-> [path |-> "blog", showReadingTime |-> TRUE]]

ThemeConfig(now) ==
    [navbar |-> [title |-> "Vlad Khitev",
                 logo |-> [alt |-> "My Site Logo",
                           src |-> RelPath(<< "img", "logo.svg" >>)],
                 items |-> NavbarItems],
     footer |-> [style |-> "dark",
                 links |-> FooterLinks,
                 copyright |-> Copyright(now)]]

\* Config with onBrokenLinks: 'warn'
ConfigWarnBrokenLinks(now) ==
    [StaticConfig EXCEPT !.onBrokenLinks = "warn"] @@ [themeConfig |-> ThemeConfig(now)]

\* Config with onDuplicateRoutes: 'warn'
ConfigWarnDuplicateRoutes(now) ==
    [StaticConfig EXCEPT !.onDuplicateRoutes = "warn"] @@ [themeConfig |-> ThemeConfig(now)]

\* Config whose navbar title, too, carries the year of the evaluation
ConfigDatedNavbar(now) ==
    StaticConfig @@
    [themeConfig |-> [ThemeConfig(now) EXCEPT
                         !.navbar.title = IF now = MinYear THEN "Vlad Khitev"
                                          ELSE "Vlad Khitev, since 2021"]]

\* module.exports, evaluated when the calendar year is `now`
Config(now) == StaticConfig @@ [themeConfig |-> ThemeConfig(now)]

(***************************************************************************)
(* Element trees.  A rendered node has a tag, its props and its children;  *)
(* a text child is a node of tag "#text".                                  *)
(***************************************************************************)
El(tag, props, children) == [tag |-> tag, props |-> props, children |-> children]

Text(s) == El("#text", [value |-> s], << >>)

\* clsx(...): the non-empty class names, in order
clsx(args) == SelectSeq(args, LAMBDA c : c # "")

(***************************************************************************)
(* src/components/HomepageFeatures                                         *)
(***************************************************************************)
Lorem ==
    << Text("Lorem ipsum dolor sit amet, consectetur adipiscing elit, sed do eiusmod tempor incididunt ut labore et dolore magna aliqua.") >>

\* the directory of the component module, against which require() resolves
ComponentDir == << "src", "components" >>

RECURSIVE ResolvePath(_, _)
\* path.resolve: ".." drops the last directory, a name is appended
ResolvePath(dir, segs) ==
    IF segs = << >> THEN dir
    ELSE IF Head(segs) = ".."
         THEN ResolvePath(SubSeq(dir, 1, Len(dir) - 1), Tail(segs))
         ELSE ResolvePath(Append(dir, Head(segs)), Tail(segs))

\* require('../../static/img/<file>').default: the module of the resolved file
Require(file) == ResolvePath(ComponentDir, << "..", "..", "static", "img", file >>)

\* FeatureList with a misspelt image path in one entry
FeatureListTypo ==
    << [title |-> "Software development",
        image |-> AbsPath(<< "img", "undraw_programing.svg" >>), description |-> Lorem],
       [title |-> "Music",
        image |-> AbsPath(<< "img", "undraw_compose_music.svg" >>), description |-> Lorem],
       [title |-> "Sport",
        image |-> AbsPath(<< "img", "undraw_healthy_habit.svg" >>), description |-> Lorem],
       [title |-> "Traveling",
        image |-> AbsPath(<< "img", "undraw_adventure.svg" >>), description |-> Lorem],
       [title |-> "Mathematics",
        image |-> AbsPath(<< "img", "undraw_mathematics.svg" >>), description |-> Lorem],
       [title |-> "Healthy lifestyle",
        image |-> AbsPath(<< "img", "undraw_meditation.svg" >>), description |-> Lorem],
       [title |-> "Reading",
        image |-> AbsPath(<< "img", "undraw_book_lover.svg" >>), description |-> Lorem],
       [title |-> "Writing",
        image |-> AbsPath(<< "img", "undraw_typewriter.svg" >>), description |-> Lorem],
       [title |-> "Teaching",
        image |-> AbsPath(<< "img", "undraw_teaching.svg" >>), description |-> Lorem] >>

\* FeatureList of HomepageFeatures.tsx (image paths)
FeatureList ==
    << [title |-> "Software development",
        image |-> AbsPath(<< "img", "undraw_programming.svg" >>), description |-> Lorem],
       [title |-> "Music",
        image |-> AbsPath(<< "img", "undraw_compose_music.svg" >>), description |-> Lorem],
       [title |-> "Sport",
        image |-> AbsPath(<< "img", "undraw_healthy_habit.svg" >>), description |-> Lorem],
       [title |-> "Traveling",
        image |-> AbsPath(<< "img", "undraw_adventure.svg" >>), description |-> Lorem],
       [title |-> "Mathematics",
        image |-> AbsPath(<< "img", "undraw_mathematics.svg" >>), description |-> Lorem],
       [title |-> "Healthy lifestyle",
        image |-> AbsPath(<< "img", "undraw_meditation.svg" >>), description |-> Lorem],
       [title |-> "Reading",
        image |-> AbsPath(<< "img", "undraw_book_lover.svg" >>), description |-> Lorem],
       [title |-> "Writing",
        image |-> AbsPath(<< "img", "undraw_typewriter.svg" >>), description |-> Lorem],
       [title |-> "Teaching",
        image |-> AbsPath(<< "img", "undraw_teaching.svg" >>), description |-> Lorem] >>

\* FeatureList of the earlier component (required Svg modules)
FeatureListSvg ==
    << [title |-> "Software development",
        Svg |-> Require("undraw_programming.svg"), description |-> Lorem],
       [title |-> "Music",
        Svg |-> Require("undraw_compose_music.svg"), description |-> Lorem],
       [title |-> "Sport",
        Svg |-> Require("undraw_healthy_habit.svg"), description |-> Lorem],
       [title |-> "Traveling",
        Svg |-> Require("undraw_adventure.svg"), description |-> Lorem],
       [title |-> "Mathematics",
        Svg |-> Require("undraw_mathematics.svg"), description |-> Lorem],
       [title |-> "Healthy lifestyle",
        Svg |-> Require("undraw_meditation.svg"), description |-> Lorem],
       [title |-> "Reading",
        Svg |-> Require("undraw_book_lover.svg"), description |-> Lorem],
       [title |-> "Writing",
        Svg |-> Require("undraw_typewriter.svg"), description |-> Lorem],
       [title |-> "Teaching",
        Svg |-> Require("undraw_teaching.svg"), description |-> Lorem] >>

\* the two versions of the component module
Versions == {"image", "Svg"}

\* Feature({ title, image, description })
Feature(props) ==
    El("div", [className |-> clsx(<< "col col--4" >>)],
       << El("div", [className |-> << "text--center" >>],
             << El("img", [className |-> << "styles.featureSvg" >>,
                           alt |-> props.title, src |-> props.image], << >>) >>),
          El("div", [className |-> << "text--center padding-horiz--md" >>],
             << El("h3", [className |-> << >>], << Text(props.title) >>),
                El("p", [className |-> << >>], props.description) >>) >>)

\* Feature({ Svg, title, description })
FeatureSvg(props) ==
    El("div", [className |-> clsx(<< "col col--4" >>)],
       << El("div", [className |-> << "text--center" >>],
             << El("Svg", [module |-> props.Svg,
                           className |-> << "styles.featureSvg" >>,
                           alt |-> props.title], << >>) >>),
          El("div", [className |-> << "text--center padding-horiz--md" >>],
             << El("h3", [className |-> << >>], << Text(props.title) >>),
                El("p", [className |-> << >>], props.description) >>) >>)

\* a map that stops one entry short
MapFeaturesSkipLast(version, list) ==
    [idx \in 1 .. Len(list) - 1 |->
        IF version = "image" THEN Feature(list[idx]) ELSE FeatureSvg(list[idx])]

\* a map over the reversed list
MapFeaturesReversed(version, list) ==
    [idx \in 1 .. Len(list) |->
        IF version = "image" THEN Feature(list[Len(list) + 1 - idx])
        ELSE FeatureSvg(list[Len(list) + 1 - idx])]

\* FeatureList.map((props, idx) => <Feature key={idx} {...props} />)
MapFeatures(version, list) ==
    [idx \in 1 .. Len(list) |->
        IF version = "image" THEN Feature(list[idx]) ELSE FeatureSvg(list[idx])]

\* HomepageFeatures(), over the module's FeatureList
HomepageFeatures(version, list) ==
    El("section", [className |-> << "styles.features" >>],
       << El("div", [className |-> << "container" >>],
             << El("div", [className |-> << "row" >>],
                   MapFeatures(version, list)) >>) >>)

(***************************************************************************)
(* src/pages/index.tsx and src/pages/index.js                              *)
(***************************************************************************)
AvatarSrc ==
    "https://media-exp1.licdn.com/dms/image/C4E03AQFIJTYzBY7xfg/profile-displayphoto-shrink_800_800/0/1599642100884?e=1638403200&v=beta&t=V7zG5-Hxt4BT55LmuXmzmWtDu_P_psjt-YdY8UgOc64"

\* the two Home page files
IndexFiles == {"index.tsx", "index.js"}

\* HomepageHeader() of index.tsx with title and tagline exchanged
HomepageHeaderTsxSwapped(cfg) ==
    El("header", [className |-> clsx(<< "hero hero--primary", "styles.heroBanner" >>)],
       << El("div", [className |-> << "container" >>],
             << El("h1", [className |-> << "hero__title" >>], << Text(cfg.tagline) >>),
                El("p", [className |-> << "hero__subtitle" >>], << Text(cfg.title) >>),
                El("div", [className |-> << "styles.buttons" >>],
                   << El("Link", [className |-> << "button button--lg button--outline" >>,
                                  to |-> AbsPath(<< "docs", "intro" >>)],
                         << Text("Blog") >>),
                      El("Link", [className |-> << "button button--lg button--outline" >>,
                                  to |-> AbsPath(<< "about" >>)],
                         << Text("About") >>) >>) >>) >>)

\* HomepageHeader() of index.tsx; cfg is useDocusaurusContext().siteConfig
HomepageHeaderTsx(cfg) ==
    El("header", [className |-> clsx(<< "hero hero--primary", "styles.heroBanner" >>)],
       << El("div", [className |-> << "container" >>],
             << El("div", [className |-> << "avatar avatar--vertical margin-bottom--md" >>],
                   << El("img", [className |-> clsx(<< "avatar__photo avatar__photo--xl",
                                                       "styles.avatar" >>),
                                 src |-> AvatarSrc, alt |-> ""], << >>) >>),
                El("h1", [className |-> << "hero__title" >>], << Text(cfg.title) >>),
                El("p", [className |-> << "hero__subtitle" >>], << Text(cfg.tagline) >>),
                El("div", [className |-> << "styles.buttons" >>],
                   << El("Link", [className |-> << "button button--lg button--outline" >>,
                                  to |-> AbsPath(<< "docs", "intro" >>)],
                         << Text("Blog") >>),
                      El("Link", [className |-> << "button button--lg button--outline" >>,
                                  to |-> AbsPath(<< "about" >>)],
                         << Text("About") >>) >>) >>) >>)

\* HomepageHeader() of index.js
HomepageHeaderJs(cfg) ==
    El("header", [className |-> clsx(<< "hero hero--primary", "styles.heroBanner" >>)],
       << El("div", [className |-> << "container" >>],
             << El("div", [class |-> << "avatar avatar--vertical margin-bottom--md" >>],
                   << El("img", [class |-> clsx(<< "avatar__photo avatar__photo--xl",
                                                   "styles.avatar" >>),
                                 src |-> AvatarSrc, alt |-> ""], << >>) >>),
                El("h1", [className |-> << "hero__title" >>], << Text(cfg.title) >>),
                El("p", [className |-> << "hero__subtitle" >>],
                   << Text("Software Engineer | Head of Front-End Chapter at"),
                      Text(" "),
                      El("a", [href |-> "https://www.axon.dev/",
                               className |-> << "styles.link" >>,
                               target |-> "_blank", rel |-> "noopener noreferrer"],
                         << Text("Axon") >>) >>),
                El("div", [className |-> << "styles.buttons" >>],
                   << El("Link", [className |-> << "button button--lg" >>,
                                  to |-> AbsPath(<< "docs", "intro" >>)],
                         << Text("Blog") >>),
                      El("Link", [className |-> << "button button--lg" >>,
                                  to |-> AbsPath(<< "docs", "intro" >>)],
                         << Text("About") >>) >>) >>) >>)

HomepageHeader(file, cfg) ==
    IF file = "index.tsx" THEN HomepageHeaderTsx(cfg) ELSE HomepageHeaderJs(cfg)

\* Home with the main element before the header
HomeChildrenMainFirst(file, cfg, version, list) ==
    << El("main", [className |-> << >>], << HomepageFeatures(version, list) >>),
       HomepageHeader(file, cfg) >>

\* the children Home passes to Layout
HomeChildren(file, cfg, version, list) ==
    << HomepageHeader(file, cfg),
       El("main", [className |-> << >>], << HomepageFeatures(version, list) >>) >>

\* Home(): index.tsx passes no props to Layout, index.js a title and a description
Home(file, cfg, version, list) ==
    IF file = "index.tsx"
    THEN El("Layout", [className |-> << >>], HomeChildren(file, cfg, version, list))
    ELSE El("Layout", [title |-> cfg.title,
                       description |-> "Vlad Khitev. Personal blog by Vlad Khitev."],
            HomeChildren(file, cfg, version, list))

(***************************************************************************)
(* src/pages/about.tsx                                                     *)
(***************************************************************************)
\* About with the paragraph beside a second one
AboutTwoParagraphs ==
    El("Layout", [title |-> "Hello"],
       << El("div", [style |-> [display |-> "flex", justifyContent |-> "center",
                                alignItems |-> "center", height |-> "50vh",
                                fontSize |-> "20px"]],
             << El("p", [className |-> << >>], << Text("Hello, I'm Vlad.") >>),
                El("p", [className |-> << >>], << Text("Welcome.") >>) >>) >>)

About ==
    El("Layout", [title |-> "Hello"],
       << El("div", [style |-> [display |-> "flex", justifyContent |-> "center",
                                alignItems |-> "center", height |-> "50vh",
                                fontSize |-> "20px"]],
             << El("p", [className |-> << >>], << Text("Hello, I'm Vlad.") >>) >>) >>)

(***************************************************************************)
(* Queries over element trees.                                             *)
(***************************************************************************)
RECURSIVE CountTag(_, _)
RECURSIVE CountTagAll(_, _)
\* number of nodes of the given tag in the tree
CountTag(node, tag) ==
    (IF node.tag = tag THEN 1 ELSE 0) + CountTagAll(node.children, tag)

CountTagAll(nodes, tag) ==
    IF nodes = << >> THEN 0
    ELSE CountTag(Head(nodes), tag) + CountTagAll(Tail(nodes), tag)

RECURSIVE FindTag(_, _)
RECURSIVE FindTagAll(_, _)
\* the nodes of the given tag, in document order
FindTag(node, tag) ==
    (IF node.tag = tag THEN << node >> ELSE << >>) \o FindTagAll(node.children, tag)

FindTagAll(nodes, tag) ==
    IF nodes = << >> THEN << >>
    ELSE FindTag(Head(nodes), tag) \o FindTagAll(Tail(nodes), tag)

(***************************************************************************)
(* The build.  The site content (the page files of src/pages, the docs and *)
(* the file links of the markdown content) is the input of a build.        *)
(***************************************************************************)
PageFiles == {"index.tsx", "index.js", "about.tsx"}

\* ids of the markdown docs a site revision may hold
DocIds == {"intro"}

\* doc files the markdown content may link to
MdTargets == {"intro", "draft"}

\* the route of a page file: index.* is the directory itself
PageRoute(file) == IF file \in IndexFiles THEN << >> ELSE << "about" >>

\* useBaseUrl(to): the base URL, then the path without its leading slash
withBaseUrl(cfg, to) == cfg.baseUrl.segs \o to.segs

\* the routes the site serves: pages, the blog list, one per doc
Routes(cfg, site) ==
    {cfg.baseUrl.segs \o PageRoute(f) : f \in site.pages}
        \cup {cfg.baseUrl.segs \o << cfg.blog.path >>}
        \cup {cfg.baseUrl.segs \o << "docs", d >> : d \in site.docs}

\* the link items of the navbar and of the footer columns
NavbarLinkItems(cfg) ==
    {cfg.themeConfig.navbar.items[i] : i \in DOMAIN cfg.themeConfig.navbar.items}

FooterLinkItems(cfg) ==
    UNION {{cfg.themeConfig.footer.links[c].items[i] :
                i \in DOMAIN cfg.themeConfig.footer.links[c].items} :
            c \in DOMAIN cfg.themeConfig.footer.links}

LinkItems(cfg) == NavbarLinkItems(cfg) \cup FooterLinkItems(cfg)

IsExternal(item) == "href" \in DOMAIN item

IsDocItem(item) == "docId" \in DOMAIN item

\* the route an internal link item leads to
ItemRoute(cfg, item) ==
    IF IsDocItem(item) THEN cfg.baseUrl.segs \o << "docs", item.docId >>
    ELSE withBaseUrl(cfg, item.to)

\* the routes the Link elements of the Home page files lead to
HomeLinkRoutes(cfg, site) ==
    UNION {{withBaseUrl(cfg, FindTag(HomepageHeader(f, cfg), "Link")[i].props.to) :
                i \in 1 .. CountTag(HomepageHeader(f, cfg), "Link")} :
            f \in site.pages \cap IndexFiles}

\* internal link targets, of the layout or of a page, that no route serves
BrokenLinks(cfg, site) ==
    ({ItemRoute(cfg, item) : item \in {it \in LinkItems(cfg) : ~IsExternal(it)}}
        \cup HomeLinkRoutes(cfg, site)) \ Routes(cfg, site)

\* markdown file links to a doc file that does not exist
BrokenMarkdownLinks(cfg, site) == site.mdLinks \ site.docs

\* two page files mapped to one route
DuplicateRoutes(cfg, site) ==
    {PageRoute(f) : f \in {g \in site.pages :
                              \E h \in site.pages : h # g /\ PageRoute(h) = PageRoute(g)}}

\* a navbar item of type 'doc' whose doc does not exist fails the render
MissingNavbarDocs(cfg, site) ==
    {item.docId : item \in {it \in NavbarLinkItems(cfg) : IsDocItem(it)}} \ site.docs

\* reporting with a severity: only 'throw' ends the build
Throws(severity, found) == found # {} /\ severity = "throw"

BuildOutcome(cfg, site) ==
    IF \/ MissingNavbarDocs(cfg, site) # {}
       \/ Throws(cfg.onDuplicateRoutes, DuplicateRoutes(cfg, site))
       \/ Throws(cfg.onBrokenLinks, BrokenLinks(cfg, site))
       \/ Throws(cfg.onBrokenMarkdownLinks, BrokenMarkdownLinks(cfg, site))
    THEN "failed"
    ELSE "success"

(***************************************************************************)
(* static/img: the asset files the feature entries name.                   *)
(***************************************************************************)
StaticDir == << "static" >>

StaticAssets ==
    {StaticDir \o << "img", f >> :
        f \in {"undraw_programming.svg", "undraw_compose_music.svg",
               "undraw_healthy_habit.svg", "undraw_adventure.svg",
               "undraw_mathematics.svg", "undraw_meditation.svg",
               "undraw_book_lover.svg", "undraw_typewriter.svg",
               "undraw_teaching.svg", "logo.svg"}}

\* the file a feature entry's image reference names: an image URL is served
\* from the static directory, a required module is the file itself
AssetFile(version, entry) ==
    IF version = "image" THEN StaticDir \o entry.image.segs ELSE entry.Svg

(***************************************************************************)
(* State.                                                                  *)
(***************************************************************************)
VARIABLES
    year,         \* the calendar year of the clock (new Date().getFullYear())
    siteConfig,   \* the value of the configuration module, as last evaluated
    prevConfig,   \* its value at the evaluation before
    configYear,   \* the year of the last evaluation
    featureList,  \* the FeatureList array of each version of the component
    rendered,     \* the last render: component, page file, version and tree
    site,         \* the content the last build ran on
    routes,       \* the routes of the built site
    buildResult,  \* "none", "success" or "failed"
    staticImg,    \* the files of the static directory
    pending,      \* the component elements of a render pass not yet rendered
    calls,        \* how often each component function ran in the render pass
    input,        \* the argument of the article's function under study
    outcome       \* what that function did: its result, calls, requests, throw

vars == << year, siteConfig, prevConfig, configYear, featureList, rendered,
           site, routes, buildResult, staticImg, pending, calls, input, outcome >>

\* the state of the article's examples
articleVars == << input, outcome >>

\* the state of a stepwise render pass
passVars == << pending, calls >>

NoRender == [component |-> "none", file |-> "none", version |-> "none",
             tree |-> Text("")]

NoSite == [pages |-> {}, docs |-> {}, mdLinks |-> {}]

\* the component functions of the Home page
Components == {"Home", "HomepageHeader", "HomepageFeatures", "Feature"}

NoCalls == [c \in Components |-> 0]

\* no value yet
NoValue == [type |-> "none"]

Init ==
    /\ year \in Years
    /\ siteConfig = Config(year)
    /\ prevConfig = siteConfig
    /\ configYear = year
    /\ featureList = [v \in Versions |-> IF v = "image" THEN FeatureList ELSE FeatureListSvg]
    /\ rendered = NoRender
    /\ site = NoSite
    /\ routes = {}
    /\ buildResult = "none"
    /\ staticImg = StaticAssets
    /\ pending = << >>
    /\ calls = NoCalls
    /\ input = NoValue
    /\ outcome = NoValue

\* the clock of the environment
Tick ==
    /\ year < MinYear + MaxYears
    /\ year' = year + 1
    /\ UNCHANGED << siteConfig, prevConfig, configYear, featureList, rendered,
                    site, routes, buildResult >>
    /\ UNCHANGED << staticImg, passVars, articleVars >>

\* a build: evaluates the configuration module, then checks the content
Build(pages, docs, mdLinks) ==
    LET cfg == Config(year)
        content == [pages |-> pages, docs |-> docs, mdLinks |-> mdLinks]
    IN  /\ siteConfig' = cfg
        /\ prevConfig' = siteConfig
        /\ configYear' = year
        /\ site' = content
        /\ buildResult' = BuildOutcome(cfg, content)
        /\ routes' = IF BuildOutcome(cfg, content) = "success"
                     THEN Routes(cfg, content) ELSE {}
        /\ UNCHANGED << year, featureList, rendered >>
        /\ UNCHANGED << staticImg, passVars, articleVars >>

\* a render that reverses the module's array in place before mapping it
RenderHomepageFeaturesInPlace(version) ==
    LET list == featureList[version]
        reversed == [i \in 1 .. Len(list) |-> list[Len(list) + 1 - i]]
    IN  /\ featureList' = [featureList EXCEPT ![version] = reversed]
        /\ rendered' = [component |-> "HomepageFeatures", file |-> "none",
                        version |-> version,
                        tree |-> HomepageFeatures(version, reversed)]
        /\ UNCHANGED << year, siteConfig, prevConfig, configYear,
                        site, routes, buildResult >>
        /\ UNCHANGED << staticImg, passVars, articleVars >>

RenderHomepageFeatures(version) ==
    /\ rendered' = [component |-> "HomepageFeatures", file |-> "none",
                    version |-> version,
                    tree |-> HomepageFeatures(version, featureList[version])]
    /\ UNCHANGED << year, siteConfig, prevConfig, configYear, featureList,
                    site, routes, buildResult >>
    /\ UNCHANGED << staticImg, passVars, articleVars >>

RenderHomepageHeader(file) ==
    /\ rendered' = [component |-> "HomepageHeader", file |-> file,
                    version |-> "none", tree |-> HomepageHeader(file, siteConfig)]
    /\ UNCHANGED << year, siteConfig, prevConfig, configYear, featureList,
                    site, routes, buildResult >>
    /\ UNCHANGED << staticImg, passVars, articleVars >>

RenderHome(file, version) ==
    /\ rendered' = [component |-> "Home", file |-> file, version |-> version,
                    tree |-> Home(file, siteConfig, version, featureList[version])]
    /\ UNCHANGED << year, siteConfig, prevConfig, configYear, featureList,
                    site, routes, buildResult >>
    /\ UNCHANGED << staticImg, passVars, articleVars >>

RenderAbout ==
    /\ rendered' = [component |-> "About", file |-> "about.tsx",
                    version |-> "none", tree |-> About]
    /\ UNCHANGED << year, siteConfig, prevConfig, configYear, featureList,
                    site, routes, buildResult >>
    /\ UNCHANGED << staticImg, passVars, articleVars >>

Next ==
    \/ Tick
    \/ \E pages \in SUBSET PageFiles, docs \in SUBSET DocIds, mdLinks \in SUBSET MdTargets :
          Build(pages, docs, mdLinks)
    \/ \E version \in Versions : RenderHomepageFeatures(version)
    \/ \E file \in IndexFiles : RenderHomepageHeader(file)
    \/ \E file \in IndexFiles, version \in Versions : RenderHome(file, version)
    \/ RenderAbout

Spec == Init /\ [][Next]_vars

(***************************************************************************)
(* The header as a function of the ambient configuration: the same renders *)
(* over configurations whose title and tagline range over small sets.      *)
(***************************************************************************)
Titles == {"Vlad Khitev", "Site A", "Site B"}

Taglines == {"Software Engineer | Head of Front-End Chapter at Axon", "Tagline A",
             "Tagline B"}

InitHeader ==
    /\ year \in Years
    /\ siteConfig \in {[Config(year) EXCEPT !.title = t, !.tagline = g] :
                          t \in Titles, g \in Taglines}
    /\ prevConfig = siteConfig
    /\ configYear = year
    /\ featureList = [v \in Versions |-> IF v = "image" THEN FeatureList ELSE FeatureListSvg]
    /\ rendered = NoRender
    /\ site = NoSite
    /\ routes = {}
    /\ buildResult = "none"
    /\ staticImg = StaticAssets
    /\ pending = << >>
    /\ calls = NoCalls
    /\ input = NoValue
    /\ outcome = NoValue

NextHeader ==
    \/ \E file \in IndexFiles : RenderHomepageHeader(file)
    \/ \E file \in IndexFiles, version \in Versions : RenderHome(file, version)

SpecHeader == InitHeader /\ [][NextHeader]_vars

(***************************************************************************)
(* Properties.                                                             *)
(***************************************************************************)
IsCell(node) ==
    /\ node.tag = "div"
    /\ "className" \in DOMAIN node.props
    /\ node.props.className = << "col col--4" >>

RECURSIVE FindCells(_)
RECURSIVE FindCellsAll(_)
\* the grid cells of a tree, in document order
FindCells(node) ==
    (IF IsCell(node) THEN << node >> ELSE << >>) \o FindCellsAll(node.children)

FindCellsAll(nodes) ==
    IF nodes = << >> THEN << >>
    ELSE FindCells(Head(nodes)) \o FindCellsAll(Tail(nodes))

CellImage(cell) == cell.children[1].children[1]

CellTitle(cell) == cell.children[2].children[1]

CellDescription(cell) == cell.children[2].children[2]

RendersGrid == rendered.component \in {"HomepageFeatures", "Home"}

\* C1: a render of HomepageFeatures (alone or inside Home), in either version
\* of the component, holds exactly one grid cell per entry of that version's
\* FeatureList, all of them children of the one row, and that number is 9.
C1_OneCellPerEntry ==
    RendersGrid =>
        LET cells == FindCells(rendered.tree)
            rows == FindTag(rendered.tree, "section")
        IN  /\ Len(cells) = Len(featureList[rendered.version])
            /\ Len(cells) = 9
            /\ Len(rows) = 1
            /\ rows[1].children[1].children[1].children = cells

C1_Witness ==
    /\ rendered.component = "HomepageFeatures"
    /\ rendered.version = "Svg"
    /\ Len(FindCells(rendered.tree)) = 9

\* C2: every render of Home, from either page file, holds exactly one header
\* and exactly one feature grid section; the header is the first child of the
\* layout and the main element that holds the section is the second.
C2_OneHeaderOneGrid ==
    rendered.component = "Home" =>
        /\ rendered.tree.tag = "Layout"
        /\ CountTag(rendered.tree, "header") = 1
        /\ CountTag(rendered.tree, "section") = 1
        /\ CountTag(rendered.tree, "main") = 1
        /\ Len(rendered.tree.children) = 2
        /\ rendered.tree.children[1].tag = "header"
        /\ rendered.tree.children[2].tag = "main"
        /\ CountTag(rendered.tree.children[2], "section") = 1

C2_Witness ==
    /\ rendered.component = "Home"
    /\ rendered.file = "index.js"
    /\ CountTag(rendered.tree, "header") = 1

\* C3: every render of About is a layout whose only child is a flex container
\* centered on both axes, whose only child is the one paragraph of the page,
\* with the literal text "Hello, I'm Vlad.".
C3_AboutGreeting ==
    rendered.component = "About" =>
        /\ rendered.tree.tag = "Layout"
        /\ Len(rendered.tree.children) = 1
        /\ CountTag(rendered.tree, "p") = 1
        /\ LET box == rendered.tree.children[1]
           IN  /\ box.tag = "div"
               /\ box.props.style.display = "flex"
               /\ box.props.style.justifyContent = "center"
               /\ box.props.style.alignItems = "center"
               /\ Len(box.children) = 1
               /\ box.children[1].tag = "p"
               /\ box.children[1].children = << Text("Hello, I'm Vlad.") >>

C3_Witness ==
    /\ rendered.component = "About"
    /\ CountTag(rendered.tree, "p") = 1

\* C4: in every built site, each navbar item and each footer link item of the
\* configuration is either an external URL (href) or leads to a route the
\* built site serves.
C4_LinksResolve ==
    buildResult = "success" =>
        \A item \in LinkItems(siteConfig) :
            IsExternal(item) \/ ItemRoute(siteConfig, item) \in routes

C4_Witness ==
    /\ buildResult = "success"
    /\ << "about" >> \in routes
    /\ << "docs", "intro" >> \in routes
    /\ << "blog" >> \in routes

C6_BuildFailsOnBroken ==
    buildResult # "none" =>
        /\ buildResult = "success" <=>
              /\ BrokenLinks(siteConfig, site) = {}
              /\ BrokenMarkdownLinks(siteConfig, site) = {}
              /\ DuplicateRoutes(siteConfig, site) = {}
        /\ buildResult = "failed" => routes = {}

C6_Witness ==
    /\ buildResult = "failed"
    /\ DuplicateRoutes(siteConfig, site) # {}
    /\ BrokenLinks(siteConfig, site) = {}
    /\ BrokenMarkdownLinks(siteConfig, site) = {}

HeaderHeading == FindTag(rendered.tree, "h1")[1].children

HeaderSubtitle == FindTag(FindTag(rendered.tree, "header")[1], "p")[1].children

HeaderLinks == FindTag(FindTag(rendered.tree, "header")[1], "Link")

TwoLinksBlogAbout ==
    /\ Len(HeaderLinks) = 2
    /\ HeaderLinks[1].children = << Text("Blog") >>
    /\ HeaderLinks[2].children = << Text("About") >>

\* C7 as stated: for every site configuration and either page file, the
\* header's heading is siteConfig.title, its subtitle is siteConfig.tagline
\* and its navigation links are exactly Blog and About.
C7_SubtitleIsTagline ==
    rendered.component \in {"HomepageHeader", "Home"} =>
        /\ HeaderHeading = << Text(siteConfig.title) >>
        /\ HeaderSubtitle = << Text(siteConfig.tagline) >>
        /\ TwoLinksBlogAbout

\* C7, amended: for every site configuration the heading is siteConfig.title
\* and the navigation links are exactly Blog and About; the subtitle is
\* siteConfig.tagline in index.tsx, and in index.js it is the fixed text
\* "Software Engineer | Head of Front-End Chapter at", a space and an
\* external link "Axon", whatever the configured tagline.
C7_HeaderOfConfig ==
    rendered.component \in {"HomepageHeader", "Home"} =>
        /\ HeaderHeading = << Text(siteConfig.title) >>
        /\ TwoLinksBlogAbout
        /\ rendered.file = "index.tsx" =>
              HeaderSubtitle = << Text(siteConfig.tagline) >>
        /\ rendered.file = "index.js" =>
              /\ Len(HeaderSubtitle) = 3
              /\ HeaderSubtitle[1] = Text("Software Engineer | Head of Front-End Chapter at")
              /\ HeaderSubtitle[2] = Text(" ")
              /\ HeaderSubtitle[3].tag = "a"
              /\ HeaderSubtitle[3].props.href = "https://www.axon.dev/"
              /\ HeaderSubtitle[3].children = << Text("Axon") >>

C7_Witness ==
    /\ rendered.component = "HomepageHeader"
    /\ rendered.file = "index.tsx"
    /\ siteConfig.title = "Site A"
    /\ siteConfig.tagline = "Tagline B"
    /\ HeaderSubtitle = << Text("Tagline B") >>

RenderStep ==
    \/ \E version \in Versions : RenderHomepageFeatures(version)
    \/ \E file \in IndexFiles : RenderHomepageHeader(file)
    \/ \E file \in IndexFiles, version \in Versions : RenderHome(file, version)
    \/ RenderAbout

\* C8: no render of Home, About, HomepageHeader or HomepageFeatures changes
\* the FeatureList arrays or the site configuration.
C8_RendersKeepData ==
    [][RenderStep => (featureList' = featureList /\ siteConfig' = siteConfig)]_vars

C8_Witness ==
    /\ rendered.component = "Home"
    /\ buildResult = "success"
    /\ featureList["image"] = FeatureList
    /\ featureList["Svg"] = FeatureListSvg
    /\ siteConfig = Config(configYear)

WithoutCopyright(cfg) == [cfg EXCEPT !.themeConfig.footer.copyright = << >>]

\* C9 as stated: two evaluations of the configuration module yield the same
\* value for every field, whatever the dates of the builds.
C9_ConfigSameInEveryBuild == siteConfig = prevConfig

\* C9, amended: two evaluations of the configuration module yield the same
\* value for every field but the footer copyright, which carries the year of
\* the build that evaluated it.
C9_ConfigSameButCopyright ==
    /\ WithoutCopyright(siteConfig) = WithoutCopyright(prevConfig)
    /\ siteConfig.themeConfig.footer.copyright =
          << "Copyright (c) " >> \o NumberToString(configYear) \o << " Vlad Khitev" >>

C9_Witness ==
    /\ buildResult # "none"
    /\ siteConfig # prevConfig
    /\ siteConfig.themeConfig.footer.copyright # prevConfig.themeConfig.footer.copyright

\* C10: the cells come in the order of FeatureList: the i-th cell shows the
\* title and the description of the i-th entry, and its image carries that
\* entry's title as alt text and that entry's image (the path, or the
\* required Svg module) as source.
C10_CellsInListOrder ==
    RendersGrid =>
        LET cells == FindCells(rendered.tree)
            list == featureList[rendered.version]
        IN  \A i \in 1 .. Len(list) :
                /\ i <= Len(cells)
                /\ CellTitle(cells[i]).children = << Text(list[i].title) >>
                /\ CellDescription(cells[i]).children = list[i].description
                /\ CellImage(cells[i]).props.alt = list[i].title
                /\ IF rendered.version = "image"
                   THEN /\ CellImage(cells[i]).tag = "img"
                        /\ CellImage(cells[i]).props.src = list[i].image
                   ELSE /\ CellImage(cells[i]).tag = "Svg"
                        /\ CellImage(cells[i]).props.module = list[i].Svg

C10_Witness ==
    /\ rendered.component = "Home"
    /\ rendered.version = "image"
    /\ CellTitle(FindCells(rendered.tree)[9]).children = << Text("Teaching") >>
    /\ CellImage(FindCells(rendered.tree)[9]).props.src =
          AbsPath(<< "img", "undraw_teaching.svg" >>)

(***************************************************************************)
(* Missing assets.  The static directory is an input: a build and a render *)
(* of the feature grid over a directory that lacks some of the files the   *)
(* feature entries name.                                                   *)
(***************************************************************************)
\* how many of the named files the static directory may lack
MaxMissing == 1

\* the files the entries of a version's FeatureList name
NamedFiles(version, list) == {AssetFile(version, list[i]) : i \in 1 .. Len(list)}

\* a bundler that reads the image paths as it reads the require() calls
ModuleCompilesReadsPaths(version, list, files) ==
    \A i \in 1 .. Len(list) : AssetFile(version, list[i]) \in files

\* the bundler resolves each require() of the module when it compiles it and
\* fails on a file that does not exist; an image path is a string it never reads
ModuleCompiles(version, list, files) ==
    version = "Svg" => \A i \in 1 .. Len(list) : list[i].Svg \in files

\* what a render gives when the component module could not be loaded
ModuleNotFound == El("#error", [message |-> "Cannot find module"], << >>)

InitAssets ==
    /\ year \in Years
    /\ siteConfig = Config(year)
    /\ prevConfig = siteConfig
    /\ configYear = year
    /\ featureList = [v \in Versions |-> IF v = "image" THEN FeatureList ELSE FeatureListSvg]
    /\ rendered = NoRender
    /\ site = NoSite
    /\ routes = {}
    /\ buildResult = "none"
    /\ staticImg \in {StaticAssets \ lost :
                        lost \in {l \in SUBSET NamedFiles("image", FeatureList) :
                                     Cardinality(l) <= MaxMissing}}
    /\ pending = << >>
    /\ calls = NoCalls
    /\ input = NoValue
    /\ outcome = NoValue

\* a build of the site with one version of the component module
BuildWithFeatures(version, pages, docs) ==
    LET cfg == Config(year)
        content == [pages |-> pages, docs |-> docs, mdLinks |-> {},
                    version |-> version]
        result == IF ModuleCompiles(version, featureList[version], staticImg)
                  THEN BuildOutcome(cfg, content) ELSE "failed"
    IN  /\ siteConfig' = cfg
        /\ prevConfig' = siteConfig
        /\ configYear' = year
        /\ site' = content
        /\ buildResult' = result
        /\ routes' = IF result = "success" THEN Routes(cfg, content) ELSE {}
        /\ UNCHANGED << year, featureList, rendered >>
        /\ UNCHANGED << staticImg, passVars, articleVars >>

\* a render of HomepageFeatures from one version of the component module
RenderFeaturesFromModule(version) ==
    /\ rendered' = [component |-> "HomepageFeatures", file |-> "none",
                    version |-> version,
                    tree |-> IF ModuleCompiles(version, featureList[version], staticImg)
                             THEN HomepageFeatures(version, featureList[version])
                             ELSE ModuleNotFound]
    /\ UNCHANGED << year, siteConfig, prevConfig, configYear, featureList,
                    site, routes, buildResult >>
    /\ UNCHANGED << staticImg, passVars, articleVars >>

NextAssets ==
    \/ \E version \in Versions, docs \in SUBSET DocIds :
          BuildWithFeatures(version, {"index.tsx", "about.tsx"}, docs)
    \/ \E version \in Versions : RenderFeaturesFromModule(version)

SpecAssets == InitAssets /\ [][NextAssets]_vars

\* some entry of the version's list names a file the static directory lacks
AssetMissing(version) ==
    \E i \in 1 .. Len(featureList[version]) :
        AssetFile(version, featureList[version][i]) \notin staticImg

\* the content of the last build has no broken link and no duplicate route
CleanContent ==
    /\ BrokenLinks(siteConfig, site) = {}
    /\ BrokenMarkdownLinks(siteConfig, site) = {}
    /\ DuplicateRoutes(siteConfig, site) = {}

AllCellsWithTitles ==
    LET cells == FindCells(rendered.tree)
        list == featureList[rendered.version]
    IN  /\ Len(cells) = Len(list)
        /\ \A i \in 1 .. Len(list) :
              CellTitle(cells[i]).children = << Text(list[i].title) >>

\* C11 as stated: in either version of the component, an entry whose image
\* does not name an existing asset raises no error: the build of otherwise
\* clean content succeeds and the render holds every cell with its title.
C11_MissingAssetIsSilent ==
    /\ (buildResult # "none" /\ AssetMissing(site.version) /\ CleanContent)
          => buildResult = "success"
    /\ (rendered.component = "HomepageFeatures" /\ AssetMissing(rendered.version))
          => AllCellsWithTitles

\* C11, amended: in the image-path version an entry whose image path does not
\* name an existing asset raises no error: the build of otherwise clean
\* content succeeds and the render holds every cell with its title, the
\* image of that cell still pointing at the missing file.  In the earlier
\* required-Svg version the missing file fails the build and nothing is
\* rendered.
C11_MissingAssetByVersion ==
    /\ (buildResult # "none" /\ AssetMissing(site.version) /\ CleanContent)
          => (buildResult = "success" <=> site.version = "image")
    /\ (rendered.component = "HomepageFeatures" /\ AssetMissing(rendered.version))
          => IF rendered.version = "image"
             THEN /\ AllCellsWithTitles
                  /\ \E i \in 1 .. Len(FeatureList) :
                        StaticDir \o CellImage(FindCells(rendered.tree)[i]).props.src.segs
                            \notin staticImg
             ELSE FindCells(rendered.tree) = << >>

C11_Witness ==
    /\ buildResult = "success"
    /\ site.version = "image"
    /\ rendered.component = "HomepageFeatures"
    /\ rendered.version = "image"
    /\ AssetMissing("image")
    /\ Len(FindCells(rendered.tree)) = 9

\* C12: each route of a build is served by exactly one page file: the two
\* Home page files are never both pages of one build, so the duplicate-route
\* check never fires.
C12_OneFilePerRoute ==
    buildResult # "none" =>
        /\ \A f \in site.pages : \A g \in site.pages :
              PageRoute(f) = PageRoute(g) => f = g
        /\ DuplicateRoutes(siteConfig, site) = {}

(***************************************************************************)
(* A render pass of the Home page, one component function at a time.  The  *)
(* renderer calls Home, then each component element of the result, depth   *)
(* first and in document order, until none is left.                        *)
(***************************************************************************)
ComponentElement(component, file, version, idx) ==
    [component |-> component, file |-> file, version |-> version, idx |-> idx]

\* HomepageFeatures returning its Feature elements and itself once more
ComponentChildrenRerender(e, list) ==
    IF e.component = "Home"
    THEN << ComponentElement("HomepageHeader", e.file, e.version, 0),
            ComponentElement("HomepageFeatures", e.file, e.version, 0) >>
    ELSE IF e.component = "HomepageFeatures" /\ e.idx = 0
    THEN [idx \in 1 .. Len(list) |->
             ComponentElement("Feature", e.file, e.version, idx)]
         \o << ComponentElement("HomepageFeatures", e.file, e.version, 1) >>
    ELSE << >>

\* the component elements in what a component function returns: Home returns
\* the header and the grid, HomepageFeatures one Feature per entry, and
\* HomepageHeader and Feature only host elements
ComponentChildren(e, list) ==
    IF e.component = "Home"
    THEN << ComponentElement("HomepageHeader", e.file, e.version, 0),
            ComponentElement("HomepageFeatures", e.file, e.version, 0) >>
    ELSE IF e.component = "HomepageFeatures"
    THEN [idx \in 1 .. Len(list) |->
             ComponentElement("Feature", e.file, e.version, idx)]
    ELSE << >>

InitPass == Init

\* the renderer is handed <Home />
StartRender(file, version) ==
    /\ pending = << >>
    /\ pending' = << ComponentElement("Home", file, version, 0) >>
    /\ calls' = NoCalls
    /\ UNCHANGED << year, siteConfig, prevConfig, configYear, featureList, rendered,
                    site, routes, buildResult, staticImg, articleVars >>

\* the renderer calls the next component function; the pass ends, and its
\* tree is committed, when no component element is left
StepRender ==
    /\ pending # << >>
    /\ LET e == Head(pending)
           rest == ComponentChildren(e, featureList[e.version]) \o Tail(pending)
       IN  /\ pending' = rest
           /\ calls' = [calls EXCEPT ![e.component] = @ + 1]
           /\ rendered' = IF rest = << >>
                          THEN [component |-> "Home", file |-> e.file,
                                version |-> e.version,
                                tree |-> Home(e.file, siteConfig, e.version,
                                              featureList[e.version])]
                          ELSE rendered
    /\ UNCHANGED << year, siteConfig, prevConfig, configYear, featureList,
                    site, routes, buildResult, staticImg, articleVars >>

NextPass ==
    \/ \E file \in IndexFiles, version \in Versions : StartRender(file, version)
    \/ StepRender

\* the renderer runs a pass to its end
SpecPass == InitPass /\ [][NextPass]_vars /\ WF_vars(StepRender)

PassDone == pending = << >> /\ calls["Home"] = 1

\* C13: a render of Home is a single pass that ends: no step of it waits, no
\* component function runs a second time, and at its end Home,
\* HomepageHeader and HomepageFeatures have run once each and Feature once
\* per FeatureList entry.
C13_SinglePass ==
    /\ [](/\ calls["Home"] <= 1
          /\ calls["HomepageHeader"] <= 1
          /\ calls["HomepageFeatures"] <= 1
          /\ calls["Feature"] <= Len(FeatureList)
          /\ pending # << >> => ENABLED StepRender
          /\ PassDone =>
                /\ calls["HomepageHeader"] = 1
                /\ calls["HomepageFeatures"] = 1
                /\ calls["Feature"] = Len(featureList[rendered.version])
                /\ calls["Feature"] = CountTagAll(FindCells(rendered.tree), "h3"))
    /\ (pending # << >>) ~> PassDone

C13_Witness ==
    /\ PassDone
    /\ calls["Feature"] = 9
    /\ rendered.component = "Home"

(***************************************************************************)
(* The article "Mastering sum types" (blog post).  Its examples are pure   *)
(* functions: each is applied to an input drawn from a bounded set, while  *)
(* the site itself stays as it is.                                         *)
(***************************************************************************)
siteVars == << year, siteConfig, prevConfig, configYear, featureList, rendered,
               site, routes, buildResult, staticImg, passVars >>

SiteAtRest ==
    /\ year = MinYear
    /\ siteConfig = Config(year)
    /\ prevConfig = siteConfig
    /\ configYear = year
    /\ featureList = [v \in Versions |-> IF v = "image" THEN FeatureList ELSE FeatureListSvg]
    /\ rendered = NoRender
    /\ site = NoSite
    /\ routes = {}
    /\ buildResult = "none"
    /\ staticImg = StaticAssets
    /\ pending = << >>
    /\ calls = NoCalls

(***************************************************************************)
(* BinaryTree and mapTree.                                                 *)
(***************************************************************************)
\* depth of the trees mapTree is applied to
MaxDepth == 2

\* the values at the nodes
TreeValues == {10, 20}

EmptyTree == [tag |-> "EmptyTree"]

Node(value, left, right) ==
    [tag |-> "Node", value |-> value, left |-> left, right |-> right]

RECURSIVE Trees(_)
Trees(depth) ==
    IF depth = 0 THEN {EmptyTree}
    ELSE {EmptyTree} \cup
         {Node(v, l, r) : v \in TreeValues, l \in Trees(depth - 1), r \in Trees(depth - 1)}

\* the functions handed to mapTree: (x) => x + 1 and one more
TreeFunctions == {"increment", "double"}

Apply(f, x) == IF f = "increment" THEN x + 1 ELSE 2 * x

RECURSIVE mapTree(_, _)
\* mapTree of the TypeScript example
mapTree(f, tree) ==
    IF tree.tag = "EmptyTree"
    THEN [tag |-> "EmptyTree"]
    ELSE [tag |-> "Node",
          value |-> Apply(f, tree.value),
          left |-> mapTree(f, tree.left),
          right |-> mapTree(f, tree.right)]

RECURSIVE mapTreeHs(_, _)
\* mapTree of the Haskell example, as its two equations read: the Node
\* equation names two subtrees, maps both and builds a Node of the two
\* results; it neither applies f to the value of the node nor keeps one
mapTreeHs(f, tree) ==
    IF tree.tag = "EmptyTree"
    THEN EmptyTree
    ELSE [tag |-> "Node",
          left |-> mapTreeHs(f, tree.left),
          right |-> mapTreeHs(f, tree.right)]

InitTree ==
    /\ SiteAtRest
    /\ input \in {[type |-> "mapTree", f |-> f, tree |-> t] :
                     f \in TreeFunctions, t \in Trees(MaxDepth)}
    /\ outcome = NoValue

MapTreeTs ==
    /\ outcome' = [type |-> "tree", lang |-> "ts", tree |-> mapTree(input.f, input.tree)]
    /\ UNCHANGED << siteVars, input >>

MapTreeHs ==
    /\ outcome' = [type |-> "tree", lang |-> "hs", tree |-> mapTreeHs(input.f, input.tree)]
    /\ UNCHANGED << siteVars, input >>

NextTree == MapTreeTs \/ MapTreeHs

SpecTree == InitTree /\ [][NextTree]_vars

RECURSIVE MappedFrom(_, _, _)
\* `out` has the shape of `in` and f of each of its values
MappedFrom(out, in, f) ==
    /\ out.tag = in.tag
    /\ in.tag = "Node" =>
          /\ DOMAIN out = DOMAIN in
          /\ out.value = Apply(f, in.value)
          /\ MappedFrom(out.left, in.left, f)
          /\ MappedFrom(out.right, in.right, f)

tree1 == Node(10, Node(20, EmptyTree, EmptyTree), EmptyTree)

\* C14: mapTree, in the TypeScript and in the Haskell example, gives a tree
\* of the shape of its input whose every Node holds f of the input's value,
\* and EmptyTree for EmptyTree; tree1 with increment gives
\* Node 11 (Node 21 EmptyTree EmptyTree) EmptyTree.
C14_MapTreeMapsEveryNode ==
    outcome.type = "tree" =>
        /\ MappedFrom(outcome.tree, input.tree, input.f)
        /\ (input.tree = tree1 /\ input.f = "increment") =>
              outcome.tree = Node(11, Node(21, EmptyTree, EmptyTree), EmptyTree)

\* the TypeScript mapTree alone maps every node
MapTreeTsMapsEveryNode ==
    (outcome.type = "tree" /\ outcome.lang = "ts") =>
        MappedFrom(outcome.tree, input.tree, input.f)

(***************************************************************************)
(* User, renderUser, renderMerchant, renderCustomer.                       *)
(***************************************************************************)
\* a string value, by its characters
Str(chars) == [type |-> "string", chars |-> chars]

Undefined == [type |-> "undefined"]

\* obj.key: undefined when the object has no such property
Get(obj, key) == IF key \in DOMAIN obj THEN obj[key] ELSE Undefined

UserIds == {Str(<< "1", "0", "0" >>), Str(<< "1", "0" >>)}

PhoneNumbers == {Str(<< "8", " ", "8", "0", "0" >>)}

\* values of the bank fields
BankStrings == {Str(<< "I", "I", "1", "0", "1", "0", "T", "T" >>), Str(<< "4", "2" >>)}

\* type User with three optional fields (the back-end's response)
OptionalUsers ==
    {[userId |-> u, phoneNumber |-> p, bankCode |-> c, bankBranchCode |-> b,
      accountNumber |-> a] :
        u \in UserIds, p \in PhoneNumbers,
        c \in BankStrings \cup {Undefined},
        b \in BankStrings \cup {Undefined},
        a \in BankStrings \cup {Undefined}}

\* type Customer = UserShared & { tag: 'Customer' }
Customers ==
    {[tag |-> "Customer", userId |-> u, phoneNumber |-> p] :
        u \in UserIds, p \in PhoneNumbers}

\* type Merchant = UserShared & { tag: 'Merchant', bankCode, bankBranchCode, accountNumber }
Merchants ==
    {[tag |-> "Merchant", userId |-> u, phoneNumber |-> p, bankCode |-> c,
      bankBranchCode |-> b, accountNumber |-> a] :
        u \in UserIds, p \in PhoneNumbers,
        c \in BankStrings, b \in BankStrings, a \in BankStrings}

\* type User = Customer | Merchant
TaggedUsers == Customers \cup Merchants

\* s.slice(4)
Slice4(chars) == SubSeq(chars, 5, Len(chars))

\* renderMerchant: renderString(merchant.accountNumber.slice(4)); reading
\* slice of undefined throws
renderMerchant(merchant) ==
    IF Get(merchant, "accountNumber") = Undefined
    THEN [type |-> "renderUser", calls |-> << "renderMerchant" >>, arg |-> merchant,
          threw |-> TRUE, shown |-> << >>]
    ELSE [type |-> "renderUser", calls |-> << "renderMerchant" >>, arg |-> merchant,
          threw |-> FALSE,
          shown |-> << Slice4(Get(merchant, "accountNumber").chars) >>]

\* renderCustomer: empty body
renderCustomer(customer) ==
    [type |-> "renderUser", calls |-> << "renderCustomer" >>, arg |-> customer,
     threw |-> FALSE, shown |-> << >>]

\* renderUser testing all three fields where the first one tests bankCode
renderUserByBankCodeAndMore(user) ==
    IF /\ Get(user, "bankCode") # Undefined
       /\ Get(user, "bankBranchCode") # Undefined
       /\ Get(user, "accountNumber") # Undefined
    THEN renderMerchant(user)
    ELSE renderCustomer(user)

\* the first renderUser: if (user.bankCode !== undefined)
renderUserByBankCode(user) ==
    IF Get(user, "bankCode") # Undefined
    THEN renderMerchant(user)
    ELSE renderCustomer(user)

\* renderUser testing two of the three fields
renderUserByTwoFields(user) ==
    IF /\ Get(user, "bankCode") # Undefined
       /\ Get(user, "bankBranchCode") # Undefined
    THEN renderMerchant(user)
    ELSE renderCustomer(user)

\* the second renderUser: all three fields !== undefined
renderUserByFields(user) ==
    IF /\ Get(user, "bankCode") # Undefined
       /\ Get(user, "bankBranchCode") # Undefined
       /\ Get(user, "accountNumber") # Undefined
    THEN renderMerchant(user)
    ELSE renderCustomer(user)

\* renderUser with the branches exchanged
renderUserByTagInverted(user) ==
    IF user.tag = "Merchant"
    THEN renderCustomer(user)
    ELSE renderMerchant(user)

\* the renderUser of the tagged union: if (user.tag === 'Merchant')
renderUserByTag(user) ==
    IF user.tag = "Merchant"
    THEN renderMerchant(user)
    ELSE renderCustomer(user)

InitUser ==
    /\ SiteAtRest
    /\ input \in {[type |-> "UserResponse", user |-> u] : u \in OptionalUsers}
                   \cup {[type |-> "User", user |-> u] : u \in TaggedUsers}
    /\ outcome = NoValue

RenderUserByBankCode ==
    /\ input.type = "UserResponse"
    /\ outcome' = [renderUserByBankCode(input.user) EXCEPT !.type = "byBankCode"]
    /\ UNCHANGED << siteVars, input >>

RenderUserByFields ==
    /\ input.type = "UserResponse"
    /\ outcome' = [renderUserByFields(input.user) EXCEPT !.type = "byFields"]
    /\ UNCHANGED << siteVars, input >>

RenderUserByTag ==
    /\ input.type = "User"
    /\ outcome' = [renderUserByTag(input.user) EXCEPT !.type = "byTag"]
    /\ UNCHANGED << siteVars, input >>

NextUser == RenderUserByBankCode \/ RenderUserByFields \/ RenderUserByTag

SpecUser == InitUser /\ [][NextUser]_vars

BankFieldsDefined(user) ==
    /\ Get(user, "bankCode") # Undefined
    /\ Get(user, "bankBranchCode") # Undefined
    /\ Get(user, "accountNumber") # Undefined

\* C15: for every value of User = Customer | Merchant the tag-based
\* renderUser makes exactly one call, renderMerchant if and only if the tag
\* is 'Merchant' and renderCustomer otherwise; renderMerchant never receives
\* an undefined bankCode, bankBranchCode or accountNumber and never throws.
C15_TagDispatch ==
    outcome.type = "byTag" =>
        /\ Len(outcome.calls) = 1
        /\ outcome.calls = << "renderMerchant" >> <=> input.user.tag = "Merchant"
        /\ outcome.calls = << "renderCustomer" >> <=> input.user.tag # "Merchant"
        /\ outcome.calls = << "renderMerchant" >> => BankFieldsDefined(outcome.arg)
        /\ outcome.arg = input.user
        /\ ~outcome.threw

C15_Witness ==
    /\ outcome.type = "byTag"
    /\ input.user.tag = "Merchant"
    /\ outcome.calls = << "renderMerchant" >>
    /\ outcome.shown = << << "1", "0", "T", "T" >> >>

\* C16: with the all-optional User and the first renderUser, a response
\* whose bankCode is defined and whose accountNumber is undefined reaches
\* renderMerchant, which throws on accountNumber.slice.
C16_BankCodeAloneThrows ==
    (/\ outcome.type = "byBankCode"
     /\ input.user.bankCode # Undefined
     /\ input.user.accountNumber = Undefined)
        => /\ outcome.calls = << "renderMerchant" >>
           /\ outcome.arg = input.user
           /\ outcome.threw

C16_Witness ==
    /\ outcome.type = "byBankCode"
    /\ input.user.bankCode # Undefined
    /\ input.user.accountNumber = Undefined
    /\ outcome.threw

\* C17: the second renderUser throws for no value of the all-optional User:
\* it calls renderMerchant exactly when bankCode, bankBranchCode and
\* accountNumber are all defined, and renderCustomer for every other value.
C17_ThreeFieldsNeverThrow ==
    outcome.type = "byFields" =>
        /\ ~outcome.threw
        /\ outcome.calls = << "renderMerchant" >> <=> BankFieldsDefined(input.user)
        /\ outcome.calls = << "renderCustomer" >> <=> ~BankFieldsDefined(input.user)

C17_Witness ==
    /\ outcome.type = "byFields"
    /\ input.user.bankCode # Undefined
    /\ input.user.accountNumber = Undefined
    /\ outcome.calls = << "renderCustomer" >>
    /\ ~outcome.threw

(***************************************************************************)
(* io-ts codecs and UserCodec.  A codec is a schema; decode checks an      *)
(* unknown value against it and returns Right(value) or Left(errors).      *)
(***************************************************************************)
tString == [kind |-> "string"]

tLiteral(value) == [kind |-> "literal", value |-> value]

tType(props) == [kind |-> "type", props |-> props]

tIntersection(codecs) == [kind |-> "intersection", codecs |-> codecs]

tUnion(codecs) == [kind |-> "union", codecs |-> codecs]

\* unknown values: null, undefined, numbers, strings and plain objects
Null == [type |-> "null"]

Num(n) == [type |-> "number", n |-> n]

Obj(fields) == [type |-> "object", fields |-> fields]

\* u[k]
Prop(u, k) == IF k \in DOMAIN u.fields THEN u.fields[k] ELSE Undefined

\* t.brand(codec, predicate, name), the predicate being regex.test(x)
tBrand(codec, regex) == [kind |-> "brand", codec |-> codec, regex |-> regex]

DigitChars == {Digit(d) : d \in 0..9}

\* regex.test(chars) for a regex of a literal followed by a count of [0-9]:
\* without ^ and $ the match may start at any position of the string
RegexTest(regex, chars) ==
    \E i \in 1..Len(chars) :
        /\ i + Len(regex.literal) + regex.digits - 1 <= Len(chars)
        /\ SubSeq(chars, i, i + Len(regex.literal) - 1) = regex.literal
        /\ \A j \in 0..(regex.digits - 1) :
               chars[i + Len(regex.literal) + j] \in DigitChars

RECURSIVE Is(_, _)
\* whether the value matches the schema
Is(codec, u) ==
    CASE codec.kind = "string" -> u.type = "string"
      [] codec.kind = "literal" -> u = codec.value
      [] codec.kind = "type" ->
            /\ u.type = "object"
            /\ \A k \in DOMAIN codec.props : Is(codec.props[k], Prop(u, k))
      [] codec.kind = "intersection" ->
            \A i \in DOMAIN codec.codecs : Is(codec.codecs[i], u)
      [] codec.kind = "union" ->
            \E i \in DOMAIN codec.codecs : Is(codec.codecs[i], u)
      [] codec.kind = "brand" ->
            Is(codec.codec, u) /\ RegexTest(codec.regex, u.chars)

\* codec.decode(u): Either<Errors, A>
Decode(codec, u) ==
    IF Is(codec, u)
    THEN [tag |-> "Right", right |-> u]
    ELSE [tag |-> "Left", left |-> [value |-> u, expected |-> codec.kind]]

StrCustomer == Str(<< "Customer" >>)

StrMerchant == Str(<< "Merchant" >>)

\* t.type({ userId: t.string, phoneNumber: t.string })
UserSharedCodec == tType([userId |-> tString, phoneNumber |-> tString])

CustomerCodec ==
    tIntersection(<< UserSharedCodec, tType([tag |-> tLiteral(StrCustomer)]) >>)

\* MerchantCodec without the accountNumber property
MerchantCodecNoAccount ==
    tIntersection(<< UserSharedCodec,
                     tType([tag |-> tLiteral(StrMerchant),
                            bankCode |-> tString,
                            bankBranchCode |-> tString]) >>)

MerchantCodec ==
    tIntersection(<< UserSharedCodec,
                     tType([tag |-> tLiteral(StrMerchant),
                            bankCode |-> tString,
                            bankBranchCode |-> tString,
                            accountNumber |-> tString]) >>)

\* t.union([CustomerCodec, MerchantCodec])
UserCodec == tUnion(<< CustomerCodec, MerchantCodec >>)

\* what a field of a response may hold
FieldValues == {Undefined, Str(<< "1", "0", "0" >>), Num(100)}

TagValues == {Undefined, StrCustomer, StrMerchant, Str(<< "Admin" >>)}

\* the unknown inputs: JSON of a response or of the storage
UnknownValues ==
    {Null, Undefined, Num(100), Str(<< "1", "0", "0" >>)} \cup
    {Obj([userId |-> u, phoneNumber |-> p, tag |-> t, bankCode |-> c,
          bankBranchCode |-> b, accountNumber |-> a]) :
        u \in FieldValues, p \in FieldValues, t \in TagValues,
        c \in FieldValues, b \in FieldValues, a \in FieldValues}

InitCodec ==
    /\ SiteAtRest
    /\ input \in {[type |-> "unknown", value |-> u] : u \in UnknownValues}
    /\ outcome = NoValue

\* getUserFromAPI / getUserFromStorage: return UserCodec.decode(json), with
\* the codec of the two shared properties
GetUserFromAPI ==
    /\ outcome' = [type |-> "getUser", either |-> Decode(UserSharedCodec, input.value)]
    /\ UNCHANGED << siteVars, input >>

\* UserCodec.decode(value), with the codec of the sum type
DecodeUser ==
    /\ outcome' = [type |-> "decodeUser", either |-> Decode(UserCodec, input.value)]
    /\ UNCHANGED << siteVars, input >>

NextCodec == GetUserFromAPI \/ DecodeUser

SpecCodec == InitCodec /\ [][NextCodec]_vars

IsStringValue(v) == v.type = "string"

\* the type User = Customer | Merchant, read off its declaration
InTypeUser(u) ==
    /\ u.type = "object"
    /\ IsStringValue(Prop(u, "userId"))
    /\ IsStringValue(Prop(u, "phoneNumber"))
    /\ \/ Prop(u, "tag") = StrCustomer
       \/ /\ Prop(u, "tag") = StrMerchant
          /\ IsStringValue(Prop(u, "bankCode"))
          /\ IsStringValue(Prop(u, "bankBranchCode"))
          /\ IsStringValue(Prop(u, "accountNumber"))

\* C18: decoding an unknown input with UserCodec gives Right, holding the
\* input, exactly when the input is of type User = Customer | Merchant
\* (userId and phoneNumber strings and either tag 'Customer', or tag
\* 'Merchant' with three string bank fields), and Left otherwise.
C18_DecodeAcceptsExactlyUser ==
    outcome.type = "decodeUser" =>
        /\ outcome.either.tag \in {"Left", "Right"}
        /\ outcome.either.tag = "Right" <=> InTypeUser(input.value)
        /\ outcome.either.tag = "Right" => outcome.either.right = input.value

C18_Witness ==
    /\ outcome.type = "decodeUser"
    /\ outcome.either.tag = "Left"
    /\ input.value.type = "object"
    /\ Prop(input.value, "tag") = StrMerchant
    /\ IsStringValue(Prop(input.value, "bankCode"))
    /\ Prop(input.value, "accountNumber") = Undefined

(***************************************************************************)
(* PhoneNumberCodec and getUserFromInput.                                  *)
(***************************************************************************)
\* /\+380[0-9]{9}/
PhoneRegex == [literal |-> << "+", "3", "8", "0" >>, digits |-> 9]

PhoneNumberCodec == tBrand(tString, PhoneRegex)

\* the methods a Document has
DocumentMethods == {"getElementById", "getElementsByName", "querySelector"}

\* the method getUserFromInput calls on document
FormLookup == "getElementbyId"

\* calling a property that is not a function throws a TypeError
LookupThrows == FormLookup \notin DocumentMethods

Request(body) == [url |-> "/api/users", method |-> "POST", body |-> body]

\* strings a user may enter into the phoneNumber field
Prefixes == {<< >>, << "x" >>, << "0" >>, << "+" >>}

Tails == {<< "1", "2", "3", "4", "5", "6", "7", "8", "9" >>,
          << "0", "0", "0", "0", "0", "0", "0", "0", "0" >>,
          << "1", "2", "3", "4", "5", "6", "7", "8" >>,
          << "1", "2", "3", "4", "x", "6", "7", "8", "9" >>,
          << >>}

Heads == {<< "+", "3", "8", "0" >>, << "+", "3", "8", "1" >>,
          << "3", "8", "0" >>, << >>}

Suffixes == {<< >>, << "0" >>, << "x" >>}

EnteredStrings ==
    {p \o h \o t \o x : p \in Prefixes, h \in Heads, t \in Tails, x \in Suffixes}

InitPhone ==
    /\ SiteAtRest
    /\ input \in {[type |-> "entered", value |-> Str(c)] : c \in EnteredStrings}
    /\ outcome = NoValue

\* PhoneNumberCodec.decode(phoneNumber)
DecodePhoneNumber ==
    /\ outcome' = [type |-> "decodePhone",
                   either |-> Decode(PhoneNumberCodec, input.value)]
    /\ UNCHANGED << siteVars, input >>

\* getUserFromInput without validation: reads the field and posts it
GetUserFromInputUnvalidated ==
    /\ outcome' =
         [type |-> "getUserFromInputUnvalidated",
          threw |-> LookupThrows,
          requests |-> IF LookupThrows THEN << >>
                       ELSE << Request([phoneNumber |-> input.value]) >>]
    /\ UNCHANGED << siteVars, input >>

\* getUserFromInput with validation: reads the field, decodes it and posts
\* result.right when result._tag is 'Right'
GetUserFromInput ==
    LET result == Decode(PhoneNumberCodec, input.value)
    IN  /\ outcome' =
             [type |-> "getUserFromInput",
              threw |-> LookupThrows,
              requests |-> IF LookupThrows THEN << >>
                           ELSE IF result.tag = "Right"
                                THEN << Request([phoneNumber |-> result.right]) >>
                                ELSE << >>]
        /\ UNCHANGED << siteVars, input >>

NextPhone == DecodePhoneNumber \/ GetUserFromInputUnvalidated \/ GetUserFromInput

SpecPhone == InitPhone /\ [][NextPhone]_vars

\* a string of the form +380 followed by nine digits, and nothing else
IsPhoneNumber(chars) ==
    /\ Len(chars) = 13
    /\ SubSeq(chars, 1, 4) = << "+", "3", "8", "0" >>
    /\ \A j \in 5..13 : chars[j] \in DigitChars

\* C19: the validated getUserFromInput sends a POST request only when the
\* entered string decodes with PhoneNumberCodec, and a string decodes with
\* PhoneNumberCodec exactly when it is +380 followed by nine digits; for an
\* empty or ill-formatted string no request is sent.
C19_RequestOnlyForPhoneNumber ==
    /\ outcome.type = "decodePhone" =>
          (outcome.either.tag = "Right" <=> IsPhoneNumber(input.value.chars))
    /\ outcome.type = "getUserFromInput" =>
          (outcome.requests # << >> =>
              /\ Decode(PhoneNumberCodec, input.value).tag = "Right"
              /\ IsPhoneNumber(input.value.chars))

\* a string that holds +380 and nine digits somewhere decodes
PhoneCodecAcceptsContaining ==
    outcome.type = "decodePhone" =>
        (outcome.either.tag = "Right" <=>
            \E i \in 1..Len(input.value.chars) :
                /\ i + 12 <= Len(input.value.chars)
                /\ IsPhoneNumber(SubSeq(input.value.chars, i, i + 12)))

\* getUserFromInput, in either version, throws before it sends anything
GetUserFromInputThrows ==
    outcome.type \in {"getUserFromInput", "getUserFromInputUnvalidated"} =>
        outcome.threw /\ outcome.requests = << >>
====
